---- MODULE Spec2Model ----
(***************************************************************************)
(* The LimitIfTouchedOrder aggregate of nautilus_trader                    *)
(* (src/unnamed/part_001, lines 93-371) as a state machine: construction,  *)
(* and the application of order events to one order instance.              *)
(*                                                                         *)
(* Prices are integers in cents (100.00 is 10000), quantities are integers *)
(* in units of the size increment, timestamps are integers (nanoseconds).  *)
(* The average fill price and the slippage are exact rationals, kept as    *)
(* records [n |-> numerator, d |-> denominator] with d > 0.                *)
(*                                                                         *)
(* The base class Order (nautilus_trader/model/orders/base.pyx), the       *)
(* Quantity type and the event classes are not among the source files; the *)
(* definitions that stand for them (the status machine, fill accumulation, *)
(* apply) follow sections 3 and 4.5 of the specification text.             *)
(***************************************************************************)
EXTENDS Integers, Sequences, FiniteSets, TLC

VARIABLES order, last, ctor, held, calls, object

vars == <<order, last, ctor, held, calls, object>>

-----------------------------------------------------------------------------
(* Bounds of the model *)

MaxQty == 3

MaxTs == 2

MaxEvents == 5

MaxVenueIds == 2

MaxCalls == 4

MaxPrice == 3

MaxVolume == 1

-----------------------------------------------------------------------------
(* Values *)

(* An optional value is the empty tuple (absent) or a one-element tuple *)
None == << >>

Some(v) == << v >>

Val(opt) == opt[1]

NoOrder == [status |-> "NO_ORDER"]

(* No value object of objects.pyx has been constructed *)
NoObject == [kind |-> "none"]

Sides == {"BUY", "SELL"}

TriggerTypes == {"NONE", "LAST_PRICE"}

TimeInForces == {"GTC", "GTD"}

VenueOrderIds == {"V-1", "V-2"}

ExpireTimes == {None} \cup {Some(t) : t \in -1 .. 1}

Statuses ==
    {"INITIALIZED", "DENIED", "SUBMITTED", "ACCEPTED", "REJECTED", "CANCELED",
     "EXPIRED", "PARTIALLY_FILLED", "FILLED"}

TerminalStatuses == {"FILLED", "CANCELED", "EXPIRED", "REJECTED", "DENIED"}

StatusEvents ==
    {"OrderSubmitted", "OrderAccepted", "OrderRejected", "OrderCanceled",
     "OrderExpired", "OrderDenied"}

(* Exact rationals *)
Rat(n, d) == [n |-> n, d |-> d]

RatEq(a, b) == a.n * b.d = b.n * a.d

RatOfInt(i) == Rat(i, 1)

RatSubInt(a, i) == Rat(a.n - i * a.d, a.d)

IntSubRat(i, a) == Rat(i * a.d - a.n, a.d)

-----------------------------------------------------------------------------
(* Construction: LimitIfTouchedOrder.__init__ *)

(* dt_to_unix_nanos: a datetime is represented by its UNIX nanoseconds *)
dt_to_unix_nanos(expire_time) == Val(expire_time)

(* Order.__init__ refuses a quantity that is not positive *)
QuantityNotPositive(a) == ~(a.quantity > 0)

(* InitError without the check that a non-GTD order has no expire time *)
InitError_NoNoneCheck(a) ==
    IF a.trigger_type = "NONE" THEN "trigger_type"
    ELSE IF a.time_in_force = "GTD" /\ a.expire_time = None THEN "expire_time_none"
    ELSE IF a.time_in_force = "GTD" /\ ~(dt_to_unix_nanos(a.expire_time) > 0)
        THEN "expire_time_epoch"
    ELSE IF ~(a.display_qty = None
              \/ (0 <= Val(a.display_qty) /\ Val(a.display_qty) <= a.quantity))
        THEN "display_qty"
    ELSE IF QuantityNotPositive(a) THEN "quantity"
    ELSE "ok"

(* InitError with the trigger_type check made after the other checks *)
InitError_TriggerTypeLast(a) ==
    IF a.time_in_force = "GTD" /\ a.expire_time = None THEN "expire_time_none"
    ELSE IF a.time_in_force = "GTD" /\ ~(dt_to_unix_nanos(a.expire_time) > 0)
        THEN "expire_time_epoch"
    ELSE IF a.time_in_force # "GTD" /\ a.expire_time # None THEN "expire_time_given"
    ELSE IF ~(a.display_qty = None
              \/ (0 <= Val(a.display_qty) /\ Val(a.display_qty) <= a.quantity))
        THEN "display_qty"
    ELSE IF QuantityNotPositive(a) THEN "quantity"
    ELSE IF a.trigger_type = "NONE" THEN "trigger_type"
    ELSE "ok"

(* InitError with the upper bound of display_qty taken strictly *)
InitError_StrictDisplayQty(a) ==
    IF a.trigger_type = "NONE" THEN "trigger_type"
    ELSE IF a.time_in_force = "GTD" /\ a.expire_time = None THEN "expire_time_none"
    ELSE IF a.time_in_force = "GTD" /\ ~(dt_to_unix_nanos(a.expire_time) > 0)
        THEN "expire_time_epoch"
    ELSE IF a.time_in_force # "GTD" /\ a.expire_time # None THEN "expire_time_given"
    ELSE IF ~(a.display_qty = None
              \/ (0 <= Val(a.display_qty) /\ Val(a.display_qty) < a.quantity))
        THEN "display_qty"
    ELSE IF QuantityNotPositive(a) THEN "quantity"
    ELSE "ok"

(* The first failing precondition of __init__, or "ok" when all pass *)
InitError(a) ==
    IF a.trigger_type = "NONE" THEN "trigger_type"
    ELSE IF a.time_in_force = "GTD" /\ a.expire_time = None THEN "expire_time_none"
    ELSE IF a.time_in_force = "GTD" /\ ~(dt_to_unix_nanos(a.expire_time) > 0)
        THEN "expire_time_epoch"
    ELSE IF a.time_in_force # "GTD" /\ a.expire_time # None THEN "expire_time_given"
    ELSE IF ~(a.display_qty = None
              \/ (0 <= Val(a.display_qty) /\ Val(a.display_qty) <= a.quantity))
        THEN "display_qty"
    ELSE IF QuantityNotPositive(a) THEN "quantity"
    ELSE "ok"

(* The fields Order.__init__ sets from the OrderInitialized event *)
OrderInit(a) ==
    [side |-> a.order_side,
     quantity |-> a.quantity,
     time_in_force |-> a.time_in_force,
     status |-> "INITIALIZED",
     filled_qty |-> 0,
     leaves_qty |-> a.quantity,
     venue_order_id |-> None,
     venue_order_ids |-> << >>,
     avg_px |-> None,
     slippage |-> RatOfInt(0),
     events |-> << "OrderInitialized" >>,
     is_post_only |-> a.post_only,
     is_reduce_only |-> a.reduce_only,
     contingency_type |-> a.contingency_type]

(* The order a successful __init__ leaves *)
LimitIfTouchedOrderInit(a) ==
    LET base == OrderInit(a)
        expire_time_ns == IF a.time_in_force = "GTD"
                          THEN dt_to_unix_nanos(a.expire_time) ELSE 0
    IN [side |-> base.side,
        quantity |-> base.quantity,
        time_in_force |-> base.time_in_force,
        status |-> base.status,
        filled_qty |-> base.filled_qty,
        leaves_qty |-> base.leaves_qty,
        venue_order_id |-> base.venue_order_id,
        venue_order_ids |-> base.venue_order_ids,
        avg_px |-> base.avg_px,
        slippage |-> base.slippage,
        events |-> base.events,
        is_post_only |-> base.is_post_only,
        is_reduce_only |-> base.is_reduce_only,
        contingency_type |-> base.contingency_type,
        price |-> a.price,
        trigger_price |-> a.trigger_price,
        trigger_type |-> a.trigger_type,
        expire_time |-> a.expire_time,
        expire_time_ns |-> expire_time_ns,
        display_qty |-> a.display_qty,
        is_triggered |-> FALSE,
        ts_triggered |-> 0]

(* The arguments an order was built from, read off an order to which no    *)
(* OrderUpdated has been applied                                           *)
ArgsOf(o) ==
    [order_side |-> o.side, quantity |-> o.quantity, price |-> o.price,
     trigger_price |-> o.trigger_price, trigger_type |-> o.trigger_type,
     time_in_force |-> o.time_in_force, expire_time |-> o.expire_time,
     display_qty |-> o.display_qty, post_only |-> o.is_post_only,
     reduce_only |-> o.is_reduce_only, contingency_type |-> o.contingency_type]

Construct(a) ==
    /\ ctor.state = "none"
    /\ LET err == InitError(a)
       IN /\ ctor' = IF err = "ok" THEN [state |-> "ok"]
                      ELSE [state |-> "failed", args |-> a, error |-> err]
          /\ order' = IF err = "ok" THEN LimitIfTouchedOrderInit(a) ELSE NoOrder
    /\ UNCHANGED <<last, held, calls, object>>

CtorArgs ==
    [order_side : {"BUY"},
     quantity : 0 .. MaxQty,
     price : {10000},
     trigger_price : {9900},
     trigger_type : TriggerTypes,
     time_in_force : TimeInForces,
     expire_time : ExpireTimes,
     display_qty : {None} \cup {Some(q) : q \in -1 .. MaxQty + 1},
     post_only : {FALSE},
     reduce_only : {FALSE},
     contingency_type : {"NONE"}]

LifeArgs ==
    [order_side : Sides,
     quantity : 1 .. MaxQty,
     price : {10000},
     trigger_price : {9900},
     trigger_type : {"LAST_PRICE"},
     time_in_force : {"GTC"},
     expire_time : {None},
     display_qty : {None},
     post_only : {FALSE},
     reduce_only : {FALSE},
     contingency_type : {"NONE"}]

-----------------------------------------------------------------------------
(* Event handlers of LimitIfTouchedOrder *)

(* Quantity(value, precision) refuses a negative value *)
QuantityRaises(value) == value < 0

(* _updated storing a carried price in trigger_price as well *)
_updated_PriceToTrigger(o, event) ==
    LET o1 == IF o.venue_order_id # event.venue_order_id
              THEN [o EXCEPT !.venue_order_ids = Append(@, o.venue_order_id),
                             !.venue_order_id = event.venue_order_id]
              ELSE o
        o2 == IF event.quantity # None
              THEN [o1 EXCEPT !.quantity = Val(event.quantity)]
              ELSE o1
        raised == event.quantity # None
                  /\ QuantityRaises(o2.quantity - o2.filled_qty)
        o3 == IF event.quantity # None
              THEN [o2 EXCEPT !.leaves_qty = o2.quantity - o2.filled_qty]
              ELSE o2
        o4 == IF event.price # None
              THEN [o3 EXCEPT !.price = Val(event.price),
                              !.trigger_price = Val(event.price)]
              ELSE o3
        o5 == IF event.trigger_price # None
              THEN [o4 EXCEPT !.trigger_price = Val(event.trigger_price)]
              ELSE o4
    IN IF raised THEN [order |-> o2, raised |-> TRUE]
       ELSE [order |-> o5, raised |-> FALSE]

(* _updated: the order after the handler ran, and whether it raised; the   *)
(* assignments made before the raising statement stay made                 *)
_updated(o, event) ==
    LET o1 == IF o.venue_order_id # event.venue_order_id
              THEN [o EXCEPT !.venue_order_ids = Append(@, o.venue_order_id),
                             !.venue_order_id = event.venue_order_id]
              ELSE o
        o2 == IF event.quantity # None
              THEN [o1 EXCEPT !.quantity = Val(event.quantity)]
              ELSE o1
        raised == event.quantity # None
                  /\ QuantityRaises(o2.quantity - o2.filled_qty)
        o3 == IF event.quantity # None
              THEN [o2 EXCEPT !.leaves_qty = o2.quantity - o2.filled_qty]
              ELSE o2
        o4 == IF event.price # None
              THEN [o3 EXCEPT !.price = Val(event.price)]
              ELSE o3
        o5 == IF event.trigger_price # None
              THEN [o4 EXCEPT !.trigger_price = Val(event.trigger_price)]
              ELSE o4
    IN IF raised THEN [order |-> o2, raised |-> TRUE]
       ELSE [order |-> o5, raised |-> FALSE]

(* _triggered taking the timestamp only when the previous call returned    *)
(* normally: state that is neither the order's nor the event's             *)
_triggered_Hidden(o, event) ==
    [o EXCEPT !.is_triggered = TRUE,
              !.ts_triggered = IF last.ok THEN event.ts_event ELSE 0]

(* _triggered flipping the flag instead of setting it *)
_triggered_Toggle(o, event) ==
    [o EXCEPT !.is_triggered = ~o.is_triggered, !.ts_triggered = event.ts_event]

(* _triggered without the timestamp assignment *)
_triggered_NoTs(o, event) ==
    [o EXCEPT !.is_triggered = TRUE]

_triggered(o, event) ==
    [o EXCEPT !.is_triggered = TRUE, !.ts_triggered = event.ts_event]

(* _set_slippage with the two sides exchanged *)
_set_slippage_Swapped(o) ==
    IF o.side = "SELL"
    THEN [o EXCEPT !.slippage = RatSubInt(Val(o.avg_px), o.price)]
    ELSE IF o.side = "BUY"
    THEN [o EXCEPT !.slippage = IntSubRat(o.price, Val(o.avg_px))]
    ELSE o

_set_slippage(o) ==
    IF o.side = "BUY"
    THEN [o EXCEPT !.slippage = RatSubInt(Val(o.avg_px), o.price)]
    ELSE IF o.side = "SELL"
    THEN [o EXCEPT !.slippage = IntSubRat(o.price, Val(o.avg_px))]
    ELSE o

-----------------------------------------------------------------------------
(* The base class: status machine, fill accumulation, apply *)

(* The table with two more edges: accepting an order that was never      *)
(* submitted, and canceling a filled order                                *)
OrderFsmTable_Lenient ==
    {<<"INITIALIZED", "OrderDenied", "DENIED">>,
     <<"INITIALIZED", "OrderSubmitted", "SUBMITTED">>,
     <<"INITIALIZED", "OrderAccepted", "ACCEPTED">>,
     <<"SUBMITTED", "OrderAccepted", "ACCEPTED">>,
     <<"ACCEPTED", "OrderRejected", "REJECTED">>,
     <<"ACCEPTED", "OrderCanceled", "CANCELED">>,
     <<"ACCEPTED", "OrderExpired", "EXPIRED">>,
     <<"PARTIALLY_FILLED", "OrderAccepted", "ACCEPTED">>,
     <<"PARTIALLY_FILLED", "OrderRejected", "REJECTED">>,
     <<"PARTIALLY_FILLED", "OrderCanceled", "CANCELED">>,
     <<"PARTIALLY_FILLED", "OrderExpired", "EXPIRED">>,
     <<"FILLED", "OrderCanceled", "CANCELED">>}

(* <<status, event, next status>> of the pure status transitions *)
OrderFsmTable ==
    {<<"INITIALIZED", "OrderDenied", "DENIED">>,
     <<"INITIALIZED", "OrderSubmitted", "SUBMITTED">>,
     <<"SUBMITTED", "OrderAccepted", "ACCEPTED">>,
     <<"ACCEPTED", "OrderRejected", "REJECTED">>,
     <<"ACCEPTED", "OrderCanceled", "CANCELED">>,
     <<"ACCEPTED", "OrderExpired", "EXPIRED">>,
     <<"PARTIALLY_FILLED", "OrderAccepted", "ACCEPTED">>,
     <<"PARTIALLY_FILLED", "OrderRejected", "REJECTED">>,
     <<"PARTIALLY_FILLED", "OrderCanceled", "CANCELED">>,
     <<"PARTIALLY_FILLED", "OrderExpired", "EXPIRED">>}

(* The statuses in which an OrderFilled is a legal transition *)
FillableStatuses == {"ACCEPTED", "PARTIALLY_FILLED"}

(* OrderTriggered sets a flag of a working order and keeps its status *)
TriggerableStatuses == {"ACCEPTED", "PARTIALLY_FILLED"}

(* OrderUpdated amends an order that has not reached a terminal status *)
UpdatableStatuses == Statuses \ TerminalStatuses

(* Volume-weighted average price after a fill of last_qty at last_px *)
_calculate_avg_px(o, last_qty, last_px) ==
    IF o.avg_px = None THEN Rat(last_px * last_qty, last_qty)
    ELSE LET avg == Val(o.avg_px)
         IN Rat(avg.n * o.filled_qty + last_px * last_qty * avg.d,
                avg.d * (o.filled_qty + last_qty))

(* _filled that reports FILLED only for a single fill of the whole quantity *)
_filled_SingleFillOnly(o, event) ==
    LET filled == o.filled_qty + event.last_qty
        leaves == o.quantity - filled
        o1 == [o EXCEPT !.avg_px = Some(_calculate_avg_px(o, event.last_qty, event.last_px)),
                        !.filled_qty = filled,
                        !.leaves_qty = leaves,
                        !.status = IF event.last_qty = o.quantity
                                   THEN "FILLED" ELSE "PARTIALLY_FILLED"]
    IN IF QuantityRaises(leaves) THEN [order |-> o, raised |-> TRUE]
       ELSE [order |-> _set_slippage(o1), raised |-> FALSE]

(* _filled: accumulate the fill, set the status, recompute the slippage *)
_filled(o, event) ==
    LET filled == o.filled_qty + event.last_qty
        leaves == o.quantity - filled
        o1 == [o EXCEPT !.avg_px = Some(_calculate_avg_px(o, event.last_qty, event.last_px)),
                        !.filled_qty = filled,
                        !.leaves_qty = leaves,
                        !.status = IF leaves = 0 THEN "FILLED" ELSE "PARTIALLY_FILLED"]
    IN IF QuantityRaises(leaves) THEN [order |-> o, raised |-> TRUE]
       ELSE [order |-> _set_slippage(o1), raised |-> FALSE]

(* The event log grows by the events that were applied *)
Logged(o, kind) == [o EXCEPT !.events = Append(@, kind)]

(* What the caller of apply observes: the event, and the error if it raised *)
Ok(event) == [event |-> event, ok |-> TRUE, error |-> "none"]

Failed(event, error) == [event |-> event, ok |-> FALSE, error |-> error]

CanApply ==
    /\ ctor.state = "ok"
    /\ Len(order.events) < MaxEvents

(* The events that were passed to apply, in order, those that raised       *)
(* included, after the arguments of the constructor (a history variable of *)
(* the properties, kept only when the construction started it)             *)
Record(event) ==
    calls' = IF calls = << >> THEN calls ELSE Append(calls, event)

(* The venue order ids the order held and gave up, oldest first *)
(* (a history variable of the properties, not a field of the order)        *)
HeldAfter(o, o2) ==
    IF o.venue_order_id # None /\ o2.venue_order_id # o.venue_order_id
    THEN Append(held, Val(o.venue_order_id))
    ELSE held

ApplyStatus(kind) ==
    /\ CanApply
    /\ LET event == [kind |-> kind]
           next == {t \in OrderFsmTable : t[1] = order.status /\ t[2] = kind}
       IN /\ Record(event)
          /\ IF next = {}
             THEN /\ order' = order
                  /\ last' = Failed([kind |-> event.kind], "StateError")
             ELSE /\ order' = Logged([order EXCEPT
                                         !.status = (CHOOSE t \in next : TRUE)[3]],
                                     kind)
                  /\ last' = Ok(event)
    /\ UNCHANGED <<ctor, held, object>>

ApplyUpdated(venue_order_id, quantity, price, trigger_price) ==
    /\ CanApply
    /\ \/ order.venue_order_id = venue_order_id
       \/ Len(order.venue_order_ids) < MaxVenueIds
    /\ LET event == [kind |-> "OrderUpdated", venue_order_id |-> venue_order_id,
                     quantity |-> quantity, price |-> price,
                     trigger_price |-> trigger_price]
           r == _updated(order, event)
       IN /\ Record(event)
          /\ IF order.status \notin UpdatableStatuses
             THEN /\ order' = order
                  /\ last' = Failed([kind |-> event.kind], "StateError")
                  /\ held' = held
             ELSE /\ order' = IF r.raised THEN r.order
                              ELSE Logged(r.order, event.kind)
                  /\ last' = IF r.raised THEN Failed(event, "ValueError")
                             ELSE Ok(event)
                  /\ held' = HeldAfter(order, r.order)
    /\ UNCHANGED <<ctor, object>>

ApplyTriggered(ts_event) ==
    /\ CanApply
    /\ LET event == [kind |-> "OrderTriggered", ts_event |-> ts_event]
       IN /\ Record(event)
          /\ IF order.status \notin TriggerableStatuses
             THEN /\ order' = order
                  /\ last' = Failed([kind |-> event.kind], "StateError")
             ELSE /\ order' = Logged(_triggered(order, event), event.kind)
                  /\ last' = Ok(event)
    /\ UNCHANGED <<ctor, held, object>>

ApplyFilled(last_qty, last_px) ==
    /\ CanApply
    /\ LET event == [kind |-> "OrderFilled", last_qty |-> last_qty, last_px |-> last_px]
           r == _filled(order, event)
       IN /\ Record(event)
          /\ IF order.status \notin FillableStatuses
             THEN /\ order' = order
                  /\ last' = Failed([kind |-> event.kind], "StateError")
             ELSE /\ order' = IF r.raised THEN r.order
                              ELSE Logged(r.order, event.kind)
                  /\ last' = IF r.raised THEN Failed(event, "ValueError")
                             ELSE Ok(event)
    /\ UNCHANGED <<ctor, held, object>>

-----------------------------------------------------------------------------
(* The value objects of objects.pyx: Tick, BarType, Bar                    *)
(* (src/unnamed/part_001, lines 372-963). Prices and volumes are integers. *)

(* Precondition.positive and Precondition.not_negative *)
positive(value) == value > 0

not_negative(value) == value >= 0

(* What a constructor leaves: the object, or the ValueError it raised and  *)
(* no object                                                               *)
Constructed(kind, args, fields) ==
    [kind |-> kind, args |-> args, error |-> "none", fields |-> fields]

Raised(kind, args, error) ==
    [kind |-> kind, args |-> args, error |-> error, fields |-> << >>]

(* Tick.__init__: the first failing precondition, or "ok" *)
TickInitError_NotCrossed(a) ==
    IF ~positive(a.bid) THEN "bid"
    ELSE IF ~positive(a.ask) THEN "ask"
    ELSE IF ~(a.ask >= a.bid) THEN "ask >= bid"
    ELSE "ok"

TickInitError(a) ==
    IF ~positive(a.bid) THEN "bid"
    ELSE IF ~positive(a.ask) THEN "ask"
    ELSE "ok"

TickInit(a) ==
    [symbol |-> a.symbol, bid |-> a.bid, ask |-> a.ask, timestamp |-> a.timestamp]

ConstructTick(a) ==
    /\ object = NoObject
    /\ object' = IF TickInitError(a) = "ok"
                 THEN Constructed("Tick", a, TickInit(a))
                 ELSE Raised("Tick", a, TickInitError(a))
    /\ UNCHANGED <<order, last, ctor, held, calls>>

(* Bar.__init__: the first failing precondition, or "ok" *)
BarInitError_NoVolumeCheck(a) ==
    IF ~positive(a.open_price) THEN "open_price"
    ELSE IF ~positive(a.high_price) THEN "high_price"
    ELSE IF ~positive(a.low_price) THEN "low_price"
    ELSE IF ~positive(a.close_price) THEN "close_price"
    ELSE IF ~(a.high_price >= a.low_price) THEN "high_price >= low_price"
    ELSE IF ~(a.high_price >= a.close_price) THEN "high_price >= close_price"
    ELSE IF ~(a.low_price <= a.close_price) THEN "low_price <= close_price"
    ELSE "ok"

BarInitError(a) ==
    IF ~positive(a.open_price) THEN "open_price"
    ELSE IF ~positive(a.high_price) THEN "high_price"
    ELSE IF ~positive(a.low_price) THEN "low_price"
    ELSE IF ~positive(a.close_price) THEN "close_price"
    ELSE IF ~not_negative(a.volume) THEN "volume"
    ELSE IF ~(a.high_price >= a.low_price) THEN "high_price >= low_price"
    ELSE IF ~(a.high_price >= a.close_price) THEN "high_price >= close_price"
    ELSE IF ~(a.low_price <= a.close_price) THEN "low_price <= close_price"
    ELSE "ok"

BarInit(a) ==
    [open |-> a.open_price, high |-> a.high_price, low |-> a.low_price,
     close |-> a.close_price, volume |-> a.volume, timestamp |-> a.timestamp]

ConstructBar(a) ==
    /\ object = NoObject
    /\ object' = IF BarInitError(a) = "ok"
                 THEN Constructed("Bar", a, BarInit(a))
                 ELSE Raised("Bar", a, BarInitError(a))
    /\ UNCHANGED <<order, last, ctor, held, calls>>

Symbols == {[code |-> << "A", "U", "D" >>, venue |-> << "F", "X", "C", "M" >>],
            [code |-> << "B", "T", "C" >>, venue |-> << "F", "T", "X" >>]}

TickArgs ==
    [symbol : Symbols, bid : -1 .. MaxPrice, ask : -1 .. MaxPrice,
     timestamp : 1 .. MaxTs]

BarArgs ==
    [open_price : -1 .. MaxPrice, high_price : -1 .. MaxPrice,
     low_price : -1 .. MaxPrice, close_price : -1 .. MaxPrice,
     volume : -1 .. MaxVolume, timestamp : 1 .. MaxTs]

-----------------------------------------------------------------------------
(* Inputs of the events *)

UpdatePrices == {9950}

UpdateTriggerPrices == {9950}

FillPrices == {9950, 10000}

Optional(S) == {None} \cup {Some(v) : v \in S}

NoEvent == Ok([kind |-> "NoEvent"])

Init ==
    /\ order = NoOrder
    /\ last = NoEvent
    /\ ctor = [state |-> "none"]
    /\ held = << >>
    /\ calls = << >>
    /\ object = NoObject

Next ==
    \/ \E a \in LifeArgs : Construct(a)
    \/ \E kind \in StatusEvents : ApplyStatus(kind)
    \/ \E id \in VenueOrderIds, q \in Optional(1 .. MaxQty),
          p \in Optional(UpdatePrices), tp \in Optional(UpdateTriggerPrices) :
          ApplyUpdated(Some(id), q, p, tp)
    \/ \E ts \in 1 .. MaxTs : ApplyTriggered(ts)
    \/ \E q \in 1 .. MaxQty, px \in FillPrices : ApplyFilled(q, px)

Spec == Init /\ [][Next]_vars

NextCtor == \E a \in CtorArgs : Construct(a)

SpecCtor == Init /\ [][NextCtor]_vars

(* The lifecycle of an iceberg order: an order constructed with a          *)
(* display_qty, to which events are applied                                *)
IcebergArgs ==
    {a \in [order_side : {"BUY"},
            quantity : 1 .. MaxQty,
            price : {10000},
            trigger_price : {9900},
            trigger_type : {"LAST_PRICE"},
            time_in_force : {"GTC"},
            expire_time : {None},
            display_qty : {Some(q) : q \in 0 .. MaxQty},
            post_only : {FALSE},
            reduce_only : {FALSE},
            contingency_type : {"NONE"}] :
        Val(a.display_qty) <= a.quantity}

NextIceberg ==
    \/ \E a \in IcebergArgs : Construct(a)
    \/ \E kind \in StatusEvents : ApplyStatus(kind)
    \/ \E id \in VenueOrderIds, q \in Optional(1 .. MaxQty),
          p \in Optional(UpdatePrices) :
          ApplyUpdated(Some(id), q, p, None)
    \/ \E ts \in 1 .. MaxTs : ApplyTriggered(ts)
    \/ \E q \in 1 .. MaxQty : ApplyFilled(q, 10000)

SpecIceberg == Init /\ [][NextIceberg]_vars

-----------------------------------------------------------------------------
(* The initialization event and LimitIfTouchedOrder.create                 *)

(* Strings are sequences of one-character strings *)
DigitChars == << "0", "1", "2", "3", "4", "5", "6", "7", "8", "9" >>

DigitChar(d) == DigitChars[d + 1]

DigitVal(c) == CHOOSE d \in 0 .. 9 : DigitChars[d + 1] = c

RECURSIVE NatToStr(_)
NatToStr(n) ==
    IF n < 10 THEN << DigitChar(n) >>
    ELSE NatToStr(n \div 10) \o << DigitChar(n % 10) >>

RECURSIVE StrToNat(_)
StrToNat(s) ==
    IF Len(s) = 0 THEN 0
    ELSE StrToNat(SubSeq(s, 1, Len(s) - 1)) * 10 + DigitVal(s[Len(s)])

(* str(price): the value with the two fractional digits of its precision   *)
PriceStr(price) ==
    NatToStr(price \div 100) \o << "." >>
        \o << DigitChar((price \div 10) % 10), DigitChar(price % 10) >>

(* Price.from_str_c: the precision is the number of digits after the point *)
PriceFromStr(s) ==
    LET dot == CHOOSE i \in 1 .. Len(s) + 1 :
                   (i = Len(s) + 1 \/ s[i] = ".")
                   /\ \A j \in 1 .. i - 1 : s[j] # "."
        whole == StrToNat(SubSeq(s, 1, dot - 1))
        frac == SubSeq(s, dot + 1, Len(s))
    IN CASE Len(frac) = 0 -> whole * 100
         [] Len(frac) = 1 -> whole * 100 + StrToNat(frac) * 10
         [] OTHER -> whole * 100 + StrToNat(SubSeq(frac, 1, 2))

(* str(quantity) and Quantity.from_str_c, for quantities of precision 0 *)
QuantityStr(quantity) == NatToStr(quantity)

QuantityFromStr(s) == StrToNat(s)

(* TriggerTypeParser: the member's name as text, and back; a text that     *)
(* names no member parses to NONE                                          *)
TriggerTypeToStr(trigger_type) == [text |-> trigger_type]

TriggerTypeFromStr(s) == IF s.text \in TriggerTypes THEN s.text ELSE "NONE"

(* maybe_unix_nanos_to_dt: no datetime for None *)
maybe_unix_nanos_to_dt(nanos) == IF nanos = None THEN None ELSE Some(Val(nanos))

(* The options mapping without the display_qty *)
Options_NoDisplayQty(a) ==
    LET expire_time_ns == IF a.time_in_force = "GTD"
                          THEN dt_to_unix_nanos(a.expire_time) ELSE 0
    IN [price |-> PriceStr(a.price),
        trigger_price |-> PriceStr(a.trigger_price),
        trigger_type |-> TriggerTypeToStr(a.trigger_type),
        expire_time_ns |-> IF expire_time_ns > 0 THEN Some(expire_time_ns) ELSE None,
        display_qty |-> None]

(* The options mapping __init__ builds from arguments that passed its checks *)
Options(a) ==
    LET expire_time_ns == IF a.time_in_force = "GTD"
                          THEN dt_to_unix_nanos(a.expire_time) ELSE 0
    IN [price |-> PriceStr(a.price),
        trigger_price |-> PriceStr(a.trigger_price),
        trigger_type |-> TriggerTypeToStr(a.trigger_type),
        expire_time_ns |-> IF expire_time_ns > 0 THEN Some(expire_time_ns) ELSE None,
        display_qty |-> IF a.display_qty # None
                        THEN Some(QuantityStr(Val(a.display_qty))) ELSE None]

(* The OrderInitialized event __init__ creates *)
OrderInitialized(a) ==
    [side |-> a.order_side,
     type |-> "LIMIT_IF_TOUCHED",
     quantity |-> a.quantity,
     time_in_force |-> a.time_in_force,
     post_only |-> a.post_only,
     reduce_only |-> a.reduce_only,
     options |-> Options(a),
     contingency_type |-> a.contingency_type]

(* The arguments create passes to the constructor *)
CreateArgsOf(init) ==
    [order_side |-> init.side,
     quantity |-> init.quantity,
     price |-> PriceFromStr(init.options.price),
     trigger_price |-> PriceFromStr(init.options.trigger_price),
     trigger_type |-> TriggerTypeFromStr(init.options.trigger_type),
     time_in_force |-> init.time_in_force,
     expire_time |-> maybe_unix_nanos_to_dt(init.options.expire_time_ns),
     display_qty |-> IF init.options.display_qty # None
                     THEN Some(QuantityFromStr(Val(init.options.display_qty)))
                     ELSE None,
     post_only |-> init.post_only,
     reduce_only |-> init.reduce_only,
     contingency_type |-> init.contingency_type]

(* create: the order built from the event, or the error raised *)
create(init) ==
    IF init.type # "LIMIT_IF_TOUCHED"
    THEN [state |-> "create_failed", error |-> "init.type", init |-> init,
          order |-> NoOrder]
    ELSE LET a == CreateArgsOf(init)
             err == InitError(a)
         IN IF err = "ok"
            THEN [state |-> "created", error |-> "none", init |-> init,
                  order |-> LimitIfTouchedOrderInit(a)]
            ELSE [state |-> "create_failed", error |-> err, init |-> init,
                  order |-> NoOrder]

OrderTypes == {"LIMIT_IF_TOUCHED", "LIMIT", "MARKET_IF_TOUCHED"}

(* create is called with the initialization event of the constructed order, *)
(* or with an event that differs from it in the order type                  *)
Create(type) ==
    /\ ctor.state = "ok"
    /\ order.events = << "OrderInitialized" >>
    /\ ctor' = create([OrderInitialized(ArgsOf(order)) EXCEPT !.type = type])
    /\ UNCHANGED <<order, last, held, calls, object>>

CreatePrices == {5, 9905, 10000}

CreateTriggerPrices == {10, 9900}

CreateCtorArgs ==
    [order_side : Sides,
     quantity : 1 .. MaxQty,
     price : CreatePrices,
     trigger_price : CreateTriggerPrices,
     trigger_type : {"LAST_PRICE"},
     time_in_force : TimeInForces,
     expire_time : {None} \cup {Some(t) : t \in 1 .. MaxTs},
     display_qty : {None} \cup {Some(q) : q \in 0 .. MaxQty},
     post_only : BOOLEAN,
     reduce_only : BOOLEAN,
     contingency_type : {"NONE", "OCO"}]

NextCreate ==
    \/ \E a \in CreateCtorArgs : Construct(a)
    \/ \E type \in OrderTypes : Create(type)

SpecCreate == Init /\ [][NextCreate]_vars

-----------------------------------------------------------------------------
(* LimitIfTouchedOrder.to_dict                                             *)

(* The values of the mapping, by the kind of value they are *)
Str(v) == [kind |-> "string", v |-> v]

Num(v) == [kind |-> "number", v |-> v]

Bool(v) == [kind |-> "boolean", v |-> v]

IdObject(v) == [kind |-> "identifier", v |-> v]

Null == [kind |-> "null", v |-> None]

(* The identifiers of an order that are absent or present: position_id is  *)
(* assigned by the venue, order_list_id and parent_order_id are optional   *)
(* arguments of the constructor                                            *)
OptionalIds ==
    [position_id : Optional({"P-1"}),
     order_list_id : Optional({"OL-1"}),
     parent_order_id : Optional({"O-0"})]

(* to_dict for an order with the given optional identifiers; the           *)
(* identifiers every order has, its tags and its timestamps are fixed      *)
to_dict(o, ids) ==
    [trader_id |-> Str("TRADER-001"),
     strategy_id |-> Str("S-001"),
     instrument_id |-> Str("BTCUSD.FTX"),
     client_order_id |-> Str("O-1"),
     venue_order_id |-> IF o.venue_order_id # None
                        THEN Str(Val(o.venue_order_id)) ELSE Null,
     position_id |-> IF ids.position_id # None
                     THEN IdObject(Val(ids.position_id)) ELSE Null,
     account_id |-> Null,
     last_trade_id |-> Null,
     type |-> Str("LIMIT_IF_TOUCHED"),
     side |-> Str(o.side),
     quantity |-> Str(QuantityStr(o.quantity)),
     price |-> Str(PriceStr(o.price)),
     trigger_price |-> Str(PriceStr(o.trigger_price)),
     trigger_type |-> Str(TriggerTypeToStr(o.trigger_type).text),
     expire_time_ns |-> IF o.expire_time_ns > 0 THEN Num(o.expire_time_ns) ELSE Null,
     time_in_force |-> Str(o.time_in_force),
     filled_qty |-> Str(QuantityStr(o.filled_qty)),
     liquidity_side |-> Str("NONE"),
     avg_px |-> IF o.avg_px # None /\ Val(o.avg_px).n # 0
                THEN Str(Val(o.avg_px)) ELSE Null,
     slippage |-> Str(o.slippage),
     status |-> Str(o.status),
     is_post_only |-> Bool(o.is_post_only),
     is_reduce_only |-> Bool(o.is_reduce_only),
     display_qty |-> IF o.display_qty # None
                     THEN Str(QuantityStr(Val(o.display_qty))) ELSE Null,
     order_list_id |-> IF ids.order_list_id # None
                       THEN IdObject(Val(ids.order_list_id)) ELSE Null,
     contingency_type |-> Str(o.contingency_type),
     linked_order_ids |-> Null,
     parent_order_id |-> IF ids.parent_order_id # None
                         THEN IdObject(Val(ids.parent_order_id)) ELSE Null,
     tags |-> Null,
     ts_last |-> Num(0),
     ts_init |-> Num(0)]

-----------------------------------------------------------------------------
(* Replay: a second order built from the same OrderInitialized event, to   *)
(* which the same events are applied                                       *)

(* Order.apply as a function: the order after apply(event) returned or     *)
(* raised                                                                  *)
apply(o, event) ==
    CASE event.kind \in StatusEvents ->
             LET next == {t \in OrderFsmTable :
                              t[1] = o.status /\ t[2] = event.kind}
             IN IF next = {} THEN o
                ELSE Logged([o EXCEPT !.status = (CHOOSE t \in next : TRUE)[3]],
                            event.kind)
      [] event.kind = "OrderUpdated" ->
             LET r == _updated(o, event)
             IN IF o.status \notin UpdatableStatuses THEN o
                ELSE IF r.raised THEN r.order ELSE Logged(r.order, event.kind)
      [] event.kind = "OrderTriggered" ->
             IF o.status \notin TriggerableStatuses THEN o
             ELSE Logged(_triggered(o, event), event.kind)
      [] event.kind = "OrderFilled" ->
             LET r == _filled(o, event)
             IN IF o.status \notin FillableStatuses THEN o
                ELSE IF r.raised THEN r.order ELSE Logged(r.order, event.kind)

RECURSIVE ReplayFrom(_, _, _)
ReplayFrom(o, log, i) ==
    IF i > Len(log) THEN o ELSE ReplayFrom(apply(o, log[i]), log, i + 1)

(* The order that create builds from the first entry of the log, after the *)
(* other entries were applied to it in order                               *)
Replay(log) == ReplayFrom(create(log[1]).order, log, 2)

(* Construction that starts the record of the calls with the               *)
(* OrderInitialized event                                                  *)
ConstructRecorded(a) ==
    /\ ctor.state = "none"
    /\ LET err == InitError(a)
       IN /\ ctor' = IF err = "ok" THEN [state |-> "ok"]
                      ELSE [state |-> "failed", args |-> a, error |-> err]
          /\ order' = IF err = "ok" THEN LimitIfTouchedOrderInit(a) ELSE NoOrder
          /\ calls' = IF err = "ok" THEN << OrderInitialized(a) >> ELSE calls
    /\ UNCHANGED <<last, held, object>>

ReplayArgs ==
    [order_side : Sides,
     quantity : {3},
     price : {10000},
     trigger_price : {9900},
     trigger_type : {"LAST_PRICE"},
     time_in_force : {"GTC"},
     expire_time : {None},
     display_qty : {None},
     post_only : {FALSE},
     reduce_only : {FALSE},
     contingency_type : {"NONE"}]

ReplayFillQtys == {1, 2}

CanRecord == Len(calls) <= MaxCalls

NextReplay ==
    \/ \E a \in ReplayArgs : ConstructRecorded(a)
    \/ \E kind \in StatusEvents : CanRecord /\ ApplyStatus(kind)
    \/ \E q \in Optional({1}) :
          CanRecord /\ ApplyUpdated(Some("V-1"), q, Some(9950), None)
    \/ \E ts \in 1 .. MaxTs : CanRecord /\ ApplyTriggered(ts)
    \/ \E q \in ReplayFillQtys, px \in UpdatePrices : CanRecord /\ ApplyFilled(q, px)

SpecReplay == Init /\ [][NextReplay]_vars

-----------------------------------------------------------------------------
(* BarType of objects.pyx and its string form                              *)

Resolutions == {"TICK", "SECOND", "MINUTE"}

QuoteTypes == {"BID", "ASK", "LAST", "MID"}

Sources == {"EXTERNAL", "INTERNAL"}

(* The names of the enum members, as text *)
EnumName ==
    [TICK |-> << "T", "I", "C", "K" >>,
     SECOND |-> << "S", "E", "C", "O", "N", "D" >>,
     MINUTE |-> << "M", "I", "N", "U", "T", "E" >>,
     BID |-> << "B", "I", "D" >>,
     ASK |-> << "A", "S", "K" >>,
     LAST |-> << "L", "A", "S", "T" >>,
     MID |-> << "M", "I", "D" >>,
     EXTERNAL |-> << "E", "X", "T", "E", "R", "N", "A", "L" >>,
     INTERNAL |-> << "I", "N", "T", "E", "R", "N", "A", "L" >>]

(* Symbol.__str__: "<CODE>.<VENUE>" *)
SymbolStr(symbol) == symbol.code \o << "." >> \o symbol.venue

BarTypeInitError(a) == IF ~positive(a.period) THEN "period" ELSE "ok"

BarTypeInit(a) ==
    [symbol |-> a.symbol, period |-> a.period, resolution |-> a.resolution,
     quote_type |-> a.quote_type]

(* BarType.__str__: "<symbol>-<period>-<RESOLUTION>[<QUOTE_TYPE>]" *)
BarTypeStr(bar_type) ==
    SymbolStr(bar_type.symbol)
        \o << "-" >> \o NatToStr(bar_type.period)
        \o << "-" >> \o EnumName[bar_type.resolution]
        \o << "[" >> \o EnumName[bar_type.quote_type] \o << "]" >>

(* The pieces of a text between the occurrences of a separator *)
RECURSIVE Split(_, _)
Split(s, sep) ==
    IF \A i \in 1 .. Len(s) : s[i] # sep THEN << s >>
    ELSE LET i == CHOOSE k \in 1 .. Len(s) :
                      s[k] = sep /\ \A j \in 1 .. k - 1 : s[j] # sep
         IN << SubSeq(s, 1, i - 1) >> \o Split(SubSeq(s, i + 1, Len(s)), sep)

IsNumber(s) ==
    /\ Len(s) > 0
    /\ \A i \in 1 .. Len(s) : \E d \in 0 .. 9 : s[i] = DigitChar(d)

ParseError == [ok |-> FALSE, error |-> "ParseError"]

(* BarType.parse of the specification, for the layout                      *)
(* "<InstrumentId>-<step>-<AGGREGATION>-<PRICE_TYPE>-<SOURCE>"; anything   *)
(* else is a ParseError                                                    *)
BarTypeParse(s) ==
    LET seg == Split(s, "-")
    IN IF Len(seg) # 5 THEN ParseError
       ELSE LET id == Split(seg[1], ".")
                resolution == {m \in Resolutions : EnumName[m] = seg[3]}
                quote_type == {m \in QuoteTypes : EnumName[m] = seg[4]}
                source == {m \in Sources : EnumName[m] = seg[5]}
            IN IF \/ Len(id) # 2
                  \/ ~IsNumber(seg[2])
                  \/ resolution = {} \/ quote_type = {} \/ source = {}
               THEN ParseError
               ELSE IF ~positive(StrToNat(seg[2])) THEN ParseError
               ELSE [ok |-> TRUE,
                     bar_type |-> [symbol |-> [code |-> id[1], venue |-> id[2]],
                                   period |-> StrToNat(seg[2]),
                                   resolution |-> CHOOSE m \in resolution : TRUE,
                                   quote_type |-> CHOOSE m \in quote_type : TRUE]]

ConstructBarType(a) ==
    /\ object = NoObject
    /\ object' = IF BarTypeInitError(a) = "ok"
                 THEN Constructed("BarType", a, BarTypeInit(a))
                 ELSE Raised("BarType", a, BarTypeInitError(a))
    /\ UNCHANGED <<order, last, ctor, held, calls>>

BarTypeArgs ==
    [symbol : Symbols, period : 0 .. MaxQty, resolution : Resolutions,
     quote_type : QuoteTypes]

(* Symbol.__init__: the code must be a valid string and is upper-cased *)
valid_string(s) == Len(s) > 0

UpperChar(c) ==
    CASE c = "a" -> "A"
      [] c = "u" -> "U"
      [] c = "d" -> "D"
      [] OTHER -> c

upper(s) == [i \in DOMAIN s |-> UpperChar(s[i])]

SymbolInitError(a) == IF ~valid_string(a.code) THEN "code" ELSE "ok"

SymbolInit(a) == [code |-> upper(a.code), venue |-> a.venue]

ConstructSymbol(a) ==
    /\ object = NoObject
    /\ object' = IF SymbolInitError(a) = "ok"
                 THEN Constructed("Symbol", a, SymbolInit(a))
                 ELSE Raised("Symbol", a, SymbolInitError(a))
    /\ UNCHANGED <<order, last, ctor, held, calls>>

SymbolArgs ==
    [code : {<< >>, << "a", "u", "d" >>, << "A", "U", "D" >>, << "B", "T", "C" >>},
     venue : {<< "F", "X", "C", "M" >>, << "F", "T", "X" >>}]

(* DataBar.__init__ checks the type of the timestamp and nothing else *)
DataBarInit(a) ==
    [open |-> a.open_price, high |-> a.high_price, low |-> a.low_price,
     close |-> a.close_price, volume |-> a.volume, timestamp |-> a.timestamp]

ConstructDataBar(a) ==
    /\ object = NoObject
    /\ object' = Constructed("DataBar", a, DataBarInit(a))
    /\ UNCHANGED <<order, last, ctor, held, calls>>

DataBarArgs ==
    [open_price : 0 .. MaxPrice, high_price : {MaxPrice}, low_price : {1},
     close_price : {1}, volume : 0 .. MaxVolume, timestamp : 1 .. MaxTs]

(* Instrument.__init__: the first failing precondition, or "ok" *)
InstrumentInitError(a) ==
    IF ~valid_string(a.broker_symbol) THEN "broker_symbol"
    ELSE IF ~not_negative(a.tick_decimals) THEN "tick_decimals"
    ELSE IF ~positive(a.tick_size) THEN "tick_size"
    ELSE IF ~positive(a.tick_value) THEN "tick_value"
    ELSE IF ~not_negative(a.target_direct_spread) THEN "target_direct_spread"
    ELSE IF ~positive(a.contract_size) THEN "contract_size"
    ELSE IF ~not_negative(a.min_stop_distance_entry) THEN "min_stop_distance_entry"
    ELSE IF ~not_negative(a.min_limit_distance_entry) THEN "min_limit_distance_entry"
    ELSE IF ~not_negative(a.min_stop_distance) THEN "min_stop_distance"
    ELSE IF ~not_negative(a.min_limit_distance) THEN "min_limit_distance"
    ELSE IF ~positive(a.min_trade_size) THEN "min_trade_size"
    ELSE IF ~positive(a.max_trade_size) THEN "max_trade_size"
    ELSE IF ~not_negative(a.margin_requirement) THEN "margin_requirement"
    ELSE "ok"

(* Every argument is kept as given *)
InstrumentInit(a) == a

ConstructInstrument(a) ==
    /\ object = NoObject
    /\ object' = IF InstrumentInitError(a) = "ok"
                 THEN Constructed("Instrument", a, InstrumentInit(a))
                 ELSE Raised("Instrument", a, InstrumentInitError(a))
    /\ UNCHANGED <<order, last, ctor, held, calls>>

InstrumentArgs ==
    [symbol : Symbols,
     broker_symbol : {<< "A", "U", "D" >>},
     tick_decimals : {0},
     tick_size : 0 .. 1,
     tick_value : {1},
     target_direct_spread : {0},
     round_lot_size : {1},
     contract_size : 0 .. 1,
     min_stop_distance_entry : {0},
     min_limit_distance_entry : {0},
     min_stop_distance : {0},
     min_limit_distance : {0},
     min_trade_size : 0 .. MaxQty,
     max_trade_size : 0 .. MaxQty,
     margin_requirement : -1 .. 0,
     timestamp : 1 .. MaxTs]

NextObjects ==
    \/ \E a \in TickArgs : ConstructTick(a)
    \/ \E a \in BarArgs : ConstructBar(a)
    \/ \E a \in BarTypeArgs : ConstructBarType(a)
    \/ \E a \in SymbolArgs : ConstructSymbol(a)
    \/ \E a \in DataBarArgs : ConstructDataBar(a)
    \/ \E a \in InstrumentArgs : ConstructInstrument(a)

SpecObjects == Init /\ [][NextObjects]_vars

-----------------------------------------------------------------------------
(* __eq__ and __hash__ of the value objects                                *)

(* hash: equal for equal arguments, taken to differ for different ones *)
hash(v) == [hashed |-> v]

(* str(timestamp) *)
TimestampStr(timestamp) == NatToStr(timestamp)

SymbolEq(a, b) == a.code = b.code /\ a.venue = b.venue

SymbolHash(a) == hash(<< a.code, a.venue >>)

TickEq(a, b) ==
    /\ SymbolEq(a.symbol, b.symbol)
    /\ a.bid = b.bid
    /\ a.ask = b.ask
    /\ a.timestamp = b.timestamp

TickHash(a) == hash(a.timestamp)

BarTypeEq(a, b) ==
    /\ SymbolEq(a.symbol, b.symbol)
    /\ a.period = b.period
    /\ a.resolution = b.resolution
    /\ a.quote_type = b.quote_type

BarTypeHash(a) ==
    hash(<< SymbolHash(a.symbol), a.period, a.resolution, a.quote_type >>)

BarEq(a, b) == a.timestamp = b.timestamp

BarHash(a) == hash(TimestampStr(a.timestamp))

DataBarEq(a, b) == a.open = b.open

DataBarHash(a) == hash(TimestampStr(a.timestamp))

InstrumentEq(a, b) == SymbolEq(a.symbol, b.symbol)

InstrumentHash(a) == hash(SymbolStr(a.symbol))

(* a == b and hash(a) for two objects of the class named by kind *)
ObjectEq(kind, a, b) ==
    CASE kind = "Symbol" -> SymbolEq(a, b)
      [] kind = "Tick" -> TickEq(a, b)
      [] kind = "BarType" -> BarTypeEq(a, b)
      [] kind = "Bar" -> BarEq(a, b)
      [] kind = "DataBar" -> DataBarEq(a, b)
      [] kind = "Instrument" -> InstrumentEq(a, b)

ObjectHash(kind, a) ==
    CASE kind = "Symbol" -> SymbolHash(a)
      [] kind = "Tick" -> TickHash(a)
      [] kind = "BarType" -> BarTypeHash(a)
      [] kind = "Bar" -> BarHash(a)
      [] kind = "DataBar" -> DataBarHash(a)
      [] kind = "Instrument" -> InstrumentHash(a)

(* The objects of a class that its constructor returns *)
Constructible(kind) ==
    CASE kind = "Symbol" ->
             {SymbolInit(a) : a \in {x \in SymbolArgs : SymbolInitError(x) = "ok"}}
      [] kind = "Tick" ->
             {TickInit(a) : a \in {x \in TickArgs : TickInitError(x) = "ok"}}
      [] kind = "BarType" ->
             {BarTypeInit(a) : a \in {x \in BarTypeArgs : BarTypeInitError(x) = "ok"}}
      [] kind = "Bar" ->
             {BarInit(a) : a \in {x \in BarArgs : BarInitError(x) = "ok"}}
      [] kind = "DataBar" -> {DataBarInit(a) : a \in DataBarArgs}
      [] kind = "Instrument" ->
             {InstrumentInit(a) :
                  a \in {x \in InstrumentArgs : InstrumentInitError(x) = "ok"}}

-----------------------------------------------------------------------------
(* Properties *)

Exists == order # NoOrder

(* The step applied an event: apply returned or raised *)
Applied == last' # last \/ order' # order

(* The step applied an event of this kind and apply returned normally *)
AppliedOk(kind) ==
    /\ Exists
    /\ order'.events = Append(order.events, kind)
    /\ last'.ok
    /\ last'.event.kind = kind

InLog(o, kind) == \E i \in DOMAIN o.events : o.events[i] = kind

LogCount(o, kind) == Cardinality({i \in DOMAIN o.events : o.events[i] = kind})

(* C1: once the status is FILLED, CANCELED, EXPIRED, REJECTED or DENIED,   *)
(* applying OrderSubmitted, OrderAccepted, OrderRejected, OrderCanceled,   *)
(* OrderExpired, OrderDenied or OrderFilled raises StateError and the      *)
(* status stays the same.                                                  *)
C1_TerminalAbsorbing ==
    [][order.status \in TerminalStatuses =>
         /\ order'.status = order.status
         /\ (Applied /\ last'.event.kind \in StatusEvents \cup {"OrderFilled"}) =>
                (~last'.ok /\ last'.error = "StateError")]_vars

C1_Witness ==
    /\ order.status = "FILLED"
    /\ last.event.kind = "OrderCanceled"
    /\ ~last.ok
    /\ last.error = "StateError"

(* The transition graph as the specification states it *)
C2_Edges ==
    {<<"INITIALIZED", "DENIED">>, <<"INITIALIZED", "SUBMITTED">>,
     <<"SUBMITTED", "ACCEPTED">>,
     <<"ACCEPTED", "PARTIALLY_FILLED">>, <<"PARTIALLY_FILLED", "ACCEPTED">>,
     <<"ACCEPTED", "FILLED">>, <<"ACCEPTED", "CANCELED">>,
     <<"ACCEPTED", "EXPIRED">>, <<"ACCEPTED", "REJECTED">>,
     <<"PARTIALLY_FILLED", "FILLED">>, <<"PARTIALLY_FILLED", "CANCELED">>,
     <<"PARTIALLY_FILLED", "EXPIRED">>, <<"PARTIALLY_FILLED", "REJECTED">>}

C2_Target(kind) ==
    CASE kind = "OrderSubmitted" -> "SUBMITTED"
      [] kind = "OrderAccepted" -> "ACCEPTED"
      [] kind = "OrderRejected" -> "REJECTED"
      [] kind = "OrderCanceled" -> "CANCELED"
      [] kind = "OrderExpired" -> "EXPIRED"
      [] kind = "OrderDenied" -> "DENIED"

C3_Args ==
    [order_side |-> "BUY", quantity |-> 1, price |-> 10000, trigger_price |-> 9900,
     trigger_type |-> "LAST_PRICE", time_in_force |-> "GTC", expire_time |-> None,
     display_qty |-> None, post_only |-> FALSE, reduce_only |-> FALSE,
     contingency_type |-> "NONE"]

C3_Fill == [kind |-> "OrderFilled", last_qty |-> 1, last_px |-> 9950]

C3_Scenario(log) ==
    /\ Exists
    /\ order.events = log
    /\ ArgsOf(order) = C3_Args
    /\ order.venue_order_id = None

C3_Final ==
    /\ order.status = "FILLED"
    /\ order.avg_px # None
    /\ RatEq(Val(order.avg_px), RatOfInt(9950))
    /\ RatEq(order.slippage, RatOfInt(-50))
    /\ order.is_triggered

C4_FillAccumulation ==
    [][AppliedOk("OrderFilled") =>
         /\ order'.filled_qty = order.filled_qty + last'.event.last_qty
         /\ order'.filled_qty = order'.quantity =>
                (order'.status = "FILLED" /\ order'.leaves_qty = 0)
         /\ order'.filled_qty < order'.quantity => order'.status = "PARTIALLY_FILLED"]_vars

C4_Witness ==
    /\ order.status = "FILLED"
    /\ LogCount(order, "OrderFilled") = 2
    /\ order.filled_qty = order.quantity
    /\ order.leaves_qty = 0

(* C5: in every state of an order leaves_qty = quantity - filled_qty.      *)
C5_LeavesQty ==
    Exists => order.leaves_qty = order.quantity - order.filled_qty

(* C6: when apply raises, every field of the order is as before the call.  *)
C6_Transactional ==
    [][(Exists /\ Applied /\ ~last'.ok) => order' = order]_vars

SomeSeq(ids) == [i \in DOMAIN ids |-> Some(ids[i])]

(* C7: an applied OrderUpdated whose venue_order_id differs from the       *)
(* order's appends the prior id to the history and installs the new one;   *)
(* with an equal id the history is unchanged; no entry is ever removed or  *)
(* reordered; the history is exactly the venue order ids the order held    *)
(* before, in order.                                                       *)
C7_VenueOrderIdHistory ==
    [][Exists =>
         /\ SubSeq(order'.venue_order_ids, 1, Len(order.venue_order_ids))
                = order.venue_order_ids
         /\ (AppliedOk("OrderUpdated")
             /\ last'.event.venue_order_id # order.venue_order_id) =>
                /\ order'.venue_order_id = last'.event.venue_order_id
                /\ Len(order'.venue_order_ids) = Len(order.venue_order_ids) + 1
         /\ (AppliedOk("OrderUpdated")
             /\ last'.event.venue_order_id = order.venue_order_id) =>
                order'.venue_order_ids = order.venue_order_ids
         /\ order'.venue_order_ids = SomeSeq(held')]_vars

(* C8: an applied OrderTriggered sets is_triggered and ts_triggered =      *)
(* event.ts_event and leaves the status and every other field unchanged    *)
(* (the event log gains the event).                                        *)
C8_TriggeredFrame ==
    [][AppliedOk("OrderTriggered") =>
         order' = [order EXCEPT !.is_triggered = TRUE,
                                !.ts_triggered = last'.event.ts_event,
                                !.events = Append(@, "OrderTriggered")]]_vars

C8_Witness ==
    /\ last.event.kind = "OrderTriggered"
    /\ last.ok
    /\ order.is_triggered
    /\ order.ts_triggered = MaxTs
    /\ order.status = "PARTIALLY_FILLED"

(* C9: in every state of an order with at least one fill, slippage =       *)
(* avg_px - price for a BUY order and price - avg_px for a SELL order,     *)
(* price being the order's current price.                                  *)
C9_SlippageProjection ==
    (Exists /\ order.avg_px # None) =>
        RatEq(order.slippage,
              IF order.side = "BUY" THEN RatSubInt(Val(order.avg_px), order.price)
              ELSE IntSubRat(order.price, Val(order.avg_px)))

(* The arguments pass every check of the constructor other than the        *)
(* expire_time checks                                                      *)
C10_OthersValid(a) ==
    /\ a.trigger_type # "NONE"
    /\ a.quantity > 0
    /\ a.display_qty # None => Val(a.display_qty) \in 0 .. a.quantity

(* C10: construction fails when time_in_force is GTD and expire_time is    *)
(* absent or at/before the epoch, fails when time_in_force is not GTD and  *)
(* expire_time is present, and otherwise succeeds with expire_time_ns > 0  *)
(* exactly when time_in_force is GTD (0 otherwise); a failed construction  *)
(* leaves no order.                                                        *)
C10_ExpireTimeExclusion ==
    ctor.state # "none" =>
        LET a == IF ctor.state = "ok" THEN ArgsOf(order) ELSE ctor.args
            gtd == a.time_in_force = "GTD"
            bad == \/ gtd /\ (a.expire_time = None \/ Val(a.expire_time) <= 0)
                   \/ ~gtd /\ a.expire_time # None
        IN /\ bad => ctor.state = "failed"
           /\ ctor.state = "failed" => order = NoOrder
           /\ (~bad /\ C10_OthersValid(a)) =>
                  /\ ctor.state = "ok"
                  /\ Exists
                  /\ gtd => (order.expire_time_ns = Val(a.expire_time)
                             /\ order.expire_time_ns > 0)
                  /\ ~gtd => order.expire_time_ns = 0

C10_Witness ==
    /\ ctor.state = "ok"
    /\ order.time_in_force = "GTD"
    /\ order.expire_time_ns > 0

(* The arguments pass every check of the constructor other than the        *)
(* display_qty check                                                       *)
C11_OthersValid(a) ==
    /\ a.trigger_type # "NONE"
    /\ a.quantity > 0
    /\ IF a.time_in_force = "GTD"
       THEN a.expire_time # None /\ Val(a.expire_time) > 0
       ELSE a.expire_time = None

(* C11: construction fails when display_qty is present and negative or     *)
(* greater than quantity; with the other arguments valid it succeeds for   *)
(* every display_qty in 0 .. quantity, both boundaries included, and when  *)
(* display_qty is absent, and the order keeps the display_qty given.       *)
C11_DisplayQtyBounds ==
    ctor.state # "none" =>
        LET a == IF ctor.state = "ok" THEN ArgsOf(order) ELSE ctor.args
            bad == a.display_qty # None
                   /\ (Val(a.display_qty) < 0 \/ Val(a.display_qty) > a.quantity)
        IN /\ bad => (ctor.state = "failed" /\ order = NoOrder)
           /\ (~bad /\ C11_OthersValid(a)) =>
                  (ctor.state = "ok" /\ Exists /\ order.display_qty = a.display_qty)
           /\ (C11_OthersValid(a) /\ ctor.state = "failed") =>
                  (bad /\ ctor.error = "display_qty")

C11_Witness ==
    /\ ctor.state = "ok"
    /\ order.display_qty = Some(order.quantity)
    /\ order.quantity = MaxQty

(* C13: construction fails when trigger_type is NONE, whatever the other   *)
(* arguments are; the failure reported is the trigger_type one even when   *)
(* other arguments are invalid too (the check comes first), and no order   *)
(* and no OrderInitialized event exist afterwards.                         *)
C13_TriggerTypeNone ==
    ctor.state # "none" =>
        LET a == IF ctor.state = "ok" THEN ArgsOf(order) ELSE ctor.args
        IN /\ a.trigger_type = "NONE" =>
                  /\ ctor.state = "failed"
                  /\ ctor.error = "trigger_type"
                  /\ order = NoOrder
           /\ (ctor.state = "failed" /\ ctor.error = "trigger_type") =>
                  a.trigger_type = "NONE"

C13_Witness ==
    /\ ctor.state = "failed"
    /\ ctor.error = "trigger_type"
    /\ ctor.args.time_in_force = "GTD"
    /\ ctor.args.expire_time = None
    /\ ctor.args.display_qty = Some(-1)
    /\ ctor.args.quantity = 0

(* C12: in every state of an order that has a display_qty, whatever events *)
(* were applied (OrderUpdated events that change the quantity included),   *)
(* 0 <= display_qty <= quantity.                                           *)
C12_DisplayQtyInvariant ==
    (Exists /\ order.display_qty # None) =>
        (0 <= Val(order.display_qty) /\ Val(order.display_qty) <= order.quantity)

(* The fields of the round trip *)
C14_Fields(o) ==
    [price |-> o.price, trigger_price |-> o.trigger_price,
     trigger_type |-> o.trigger_type, time_in_force |-> o.time_in_force,
     expire_time_ns |-> o.expire_time_ns, display_qty |-> o.display_qty,
     quantity |-> o.quantity, side |-> o.side, is_post_only |-> o.is_post_only,
     is_reduce_only |-> o.is_reduce_only, contingency_type |-> o.contingency_type]

(* C14: create applied to the OrderInitialized event of a constructed      *)
(* order succeeds and yields an order with the same price, trigger_price,  *)
(* trigger_type, time_in_force, expire_time_ns, display_qty, quantity,     *)
(* side, post_only, reduce_only and contingency type; create fails,        *)
(* yielding no order, when the event's order type is not LIMIT_IF_TOUCHED. *)
C14_CreateRoundTrip ==
    ctor.state \in {"created", "create_failed"} =>
        IF ctor.init.type = "LIMIT_IF_TOUCHED"
        THEN /\ ctor.state = "created"
             /\ C14_Fields(ctor.order) = C14_Fields(order)
        ELSE /\ ctor.state = "create_failed"
             /\ ctor.error = "init.type"
             /\ ctor.order = NoOrder

C14_Witness ==
    /\ ctor.state = "created"
    /\ ctor.order.display_qty = Some(MaxQty)
    /\ ctor.order.price = 9905
    /\ ctor.order.expire_time_ns = MaxTs
    /\ ctor.order.is_post_only
    /\ ctor.order.contingency_type = "OCO"

(* The keys of the mapping *)
C15_Keys ==
    {"trader_id", "strategy_id", "instrument_id", "client_order_id",
     "venue_order_id", "position_id", "account_id", "last_trade_id", "type",
     "side", "quantity", "price", "trigger_price", "trigger_type",
     "expire_time_ns", "time_in_force", "filled_qty", "liquidity_side",
     "avg_px", "slippage", "status", "is_post_only", "is_reduce_only",
     "display_qty", "order_list_id", "contingency_type", "linked_order_ids",
     "parent_order_id", "tags", "ts_last", "ts_init"}

(* C15: in every state of an order, to_dict() is a mapping with one fixed  *)
(* set of keys whose values are all strings, numbers or null: no boolean,  *)
(* no identifier object, no nested container.                              *)
C15_ToDictFlat ==
    Exists =>
        \A ids \in OptionalIds :
            LET d == to_dict(order, ids)
            IN /\ DOMAIN d = C15_Keys
               /\ \A k \in DOMAIN d : d[k].kind \in {"string", "number", "null"}

(* The fields replay is to reproduce *)
C16_State(o) ==
    [status |-> o.status, quantity |-> o.quantity, filled_qty |-> o.filled_qty,
     leaves_qty |-> o.leaves_qty, price |-> o.price,
     trigger_price |-> o.trigger_price, venue_order_id |-> o.venue_order_id,
     venue_order_ids |-> o.venue_order_ids, is_triggered |-> o.is_triggered,
     ts_triggered |-> o.ts_triggered, avg_px |-> o.avg_px,
     slippage |-> o.slippage]

IsBar == object.kind = "Bar" /\ object.error = "none"

(* C17: every Bar that construction returns has low <= open <= high and    *)
(* low <= close <= high (and low <= high), whatever open, high, low and    *)
(* close prices were passed.                                               *)
C17_BarOrdering ==
    IsBar =>
        LET bar == object.fields
        IN /\ bar.low <= bar.open /\ bar.open <= bar.high
           /\ bar.low <= bar.close /\ bar.close <= bar.high
           /\ bar.low <= bar.high

(* C18: constructing a Bar with low > high, with close outside [low, high],*)
(* with a price that is not positive or with a negative volume raises and  *)
(* leaves no object; a Bar that was constructed holds exactly the open,    *)
(* high, low, close and volume it was given.                               *)
C18_BarGate ==
    object.kind = "Bar" =>
        LET a == object.args
            bad == \/ a.low_price > a.high_price
                   \/ a.close_price < a.low_price \/ a.close_price > a.high_price
                   \/ a.open_price <= 0 \/ a.high_price <= 0
                   \/ a.low_price <= 0 \/ a.close_price <= 0
                   \/ a.volume < 0
        IN /\ bad => (object.error # "none" /\ object.fields = << >>)
           /\ object.error = "none" =>
                  /\ object.fields.open = a.open_price
                  /\ object.fields.high = a.high_price
                  /\ object.fields.low = a.low_price
                  /\ object.fields.close = a.close_price
                  /\ object.fields.volume = a.volume

C18_Witness ==
    /\ object.kind = "Bar"
    /\ object.error = "volume"
    /\ object.args.volume = -1
    /\ object.args.open_price = MaxPrice

(* C19: Tick construction succeeds exactly when bid > 0 and ask > 0, it    *)
(* does not require ask >= bid, and a crossed tick (ask < bid) keeps its   *)
(* bid and ask unchanged.                                                  *)
C19_TickPositive ==
    object.kind = "Tick" =>
        LET a == object.args
        IN /\ object.error = "none" <=> (a.bid > 0 /\ a.ask > 0)
           /\ object.error # "none" => object.fields = << >>
           /\ object.error = "none" =>
                  (object.fields.bid = a.bid /\ object.fields.ask = a.ask)

C19_Witness ==
    /\ object.kind = "Tick"
    /\ object.error = "none"
    /\ object.fields.ask < object.fields.bid
    /\ object.fields.bid = MaxPrice

(* C20: for every BarType bt, parse(format(bt)) = bt, format(bt) being its *)
(* string form, which is to have the layout                                *)
(* <InstrumentId>-<step>-<AGGREGATION>-<PRICE_TYPE>-<SOURCE>.              *)
C20_BarTypeRoundTrip ==
    (object.kind = "BarType" /\ object.error = "none") =>
        /\ Len(Split(BarTypeStr(object.fields), "-")) = 5
        /\ BarTypeParse(BarTypeStr(object.fields))
               = [ok |-> TRUE, bar_type |-> object.fields]

IsInstrument == object.kind = "Instrument" /\ object.error = "none"

(* C21: every Instrument that construction returns has min <= max for its  *)
(* bounded pair, min_trade_size <= max_trade_size; constructing one with   *)
(* min_trade_size > max_trade_size fails.                                  *)
C21_InstrumentMinMax ==
    /\ IsInstrument => object.fields.min_trade_size <= object.fields.max_trade_size
    /\ (object.kind = "Instrument"
        /\ object.args.min_trade_size > object.args.max_trade_size) =>
           object.error # "none"

(* The step ran the handler of OrderUpdated, to the end or up to a raise *)
UpdatedRan ==
    /\ Exists
    /\ Applied
    /\ last'.event.kind = "OrderUpdated"
    /\ last'.error # "StateError"

(* C22: an applied OrderUpdated replaces each of quantity, price and       *)
(* trigger_price when the event carries it and leaves it unchanged when it *)
(* does not; an update never changes filled_qty, avg_px, side,             *)
(* time_in_force, expire_time_ns, display_qty, is_triggered or             *)
(* ts_triggered, and leaves_qty changes only when the event carries a      *)
(* quantity.                                                               *)
C22_UpdatedFrame ==
    [][/\ AppliedOk("OrderUpdated") =>
            /\ order'.quantity = IF last'.event.quantity # None
                                 THEN Val(last'.event.quantity)
                                 ELSE order.quantity
            /\ order'.price = IF last'.event.price # None
                              THEN Val(last'.event.price)
                              ELSE order.price
            /\ order'.trigger_price = IF last'.event.trigger_price # None
                                      THEN Val(last'.event.trigger_price)
                                      ELSE order.trigger_price
       /\ UpdatedRan =>
            /\ order'.filled_qty = order.filled_qty
            /\ order'.avg_px = order.avg_px
            /\ order'.side = order.side
            /\ order'.time_in_force = order.time_in_force
            /\ order'.expire_time_ns = order.expire_time_ns
            /\ order'.display_qty = order.display_qty
            /\ order'.is_triggered = order.is_triggered
            /\ order'.ts_triggered = order.ts_triggered
            /\ order'.leaves_qty # order.leaves_qty =>
                   last'.event.quantity # None]_vars

C22_Witness ==
    /\ Exists
    /\ last.ok
    /\ last.event.kind = "OrderUpdated"
    /\ last.event.quantity = None
    /\ last.event.price = Some(9950)
    /\ last.event.trigger_price = None
    /\ order.price = 9950
    /\ order.trigger_price = 9900
    /\ order.filled_qty = 1
    /\ order.leaves_qty = order.quantity - 1
    /\ order.leaves_qty > 0

(* C23: in every state of an order filled_qty <= quantity and leaves_qty   *)
(* is not negative: a fill beyond the quantity, and an update of the       *)
(* quantity below filled_qty, are refused.                                 *)
C23_FilledWithinQuantity ==
    Exists =>
        /\ order.filled_qty <= order.quantity
        /\ order.leaves_qty >= 0

(* C24: a new order has is_triggered = FALSE and ts_triggered = 0; no      *)
(* event clears is_triggered once it is set; is_triggered holds only after *)
(* an OrderTriggered was applied, and ts_triggered is the ts_event of the  *)
(* most recent one (only an applied OrderTriggered changes either field).  *)
C24_TriggerMonotonic ==
    /\ [](Exists =>
            /\ order.is_triggered <=> InLog(order, "OrderTriggered")
            /\ ~order.is_triggered => order.ts_triggered = 0)
    /\ [][/\ (~Exists /\ order' # NoOrder) =>
                (~order'.is_triggered /\ order'.ts_triggered = 0)
          /\ Exists =>
                /\ order.is_triggered => order'.is_triggered
                /\ IF AppliedOk("OrderTriggered")
                   THEN /\ order'.is_triggered
                        /\ order'.ts_triggered = last'.event.ts_event
                   ELSE /\ order'.is_triggered = order.is_triggered
                        /\ order'.ts_triggered = order.ts_triggered]_vars

C24_Witness ==
    /\ Exists
    /\ order.is_triggered
    /\ order.ts_triggered = 1
    /\ order.events = << "OrderInitialized", "OrderSubmitted", "OrderAccepted",
                         "OrderTriggered", "OrderFilled" >>

IsObject == object.kind # "none" /\ object.error = "none"

(* C25: for every two objects a and b of the same value type (Symbol,      *)
(* Tick, BarType, Bar, DataBar, Instrument), a == b implies                *)
(* hash(a) == hash(b).                                                     *)
C25_EqHashAgree ==
    IsObject =>
        \A b \in Constructible(object.kind) :
            ObjectEq(object.kind, object.fields, b) =>
                ObjectHash(object.kind, object.fields) = ObjectHash(object.kind, b)

====
